---- MODULE Spec2Model ----
(***************************************************************************)
(* Emotion Analyzer (src/emotion_analyzer.py): the wide-to-tidy            *)
(* normaliser preprocess_data, the power-law weighter power_weights /      *)
(* apply_power_weighting, and the handlers of EmotionAnalyzerApp that      *)
(* store, plot and export the two result tables.                           *)
(*                                                                         *)
(* Data representation.                                                    *)
(*   - a column header is a string; substring tests, split and int() are   *)
(*     computed character by character;                                    *)
(*   - a raw cell is Num(v) or Str(s); a raw table is                      *)
(*     [columns : Seq(STRING), rows : Seq(Seq(cell))], every row aligned   *)
(*     with the columns;                                                   *)
(*   - a float is an exact value c * base^exp: a rational <<n, d>> times   *)
(*     a power that is kept symbolic when the exponent is not an integer   *)
(*     (floating-point rounding is not modelled);                          *)
(*   - a polars frame is [none |-> FALSE, columns : Seq(STRING),           *)
(*     data : [column name -> Seq(value)]]; None is [none |-> TRUE].       *)
(***************************************************************************)
EXTENDS Integers, Sequences, FiniteSets, TLC

VARIABLES
    filepath,            \* self.filepath: "" or the name of the selected file
    a_param,             \* self.a_param: the text of the entry, as parsed by Tk
    b_param,             \* self.b_param
    remove_last_second,  \* self.remove_last_second
    visible,             \* emotion_config[e]["visible"], as the set of visible e
    df_original,         \* self.df_original
    df_weighted,         \* self.df_weighted
    last,                \* the handler that ran last, its outcome, its figures
    raw_df,              \* pipeline runs: the table handed to preprocess_data
    tidy,                \* pipeline runs: what preprocess_data returned
    weighted,            \* pipeline runs: what apply_power_weighting returned
    pc                   \* pipeline runs: position in the run

vars == <<filepath, a_param, b_param, remove_last_second, visible,
          df_original, df_weighted, last, raw_df, tidy, weighted, pc>>

(***************************************************************************)
(* Sequences and strings                                                   *)
(***************************************************************************)
Range(s) == {s[i] : i \in 1..Len(s)}

RECURSIVE SortedSeq(_)
SortedSeq(S) ==
    IF S = {} THEN <<>>
    ELSE LET m == CHOOSE x \in S : \A y \in S : x <= y
         IN  <<m>> \o SortedSeq(S \ {m})

\* s[i] for i in idx, in the order of idx
Pick(s, idx) == [k \in 1..Len(idx) |-> s[idx[k]]]

IndexOf(s, x) == CHOOSE i \in 1..Len(s) : s[i] = x /\ \A j \in 1..(i - 1) : s[j] # x

NoDuplicates(s) == \A i, j \in 1..Len(s) : s[i] = s[j] => i = j

\* Python's `sub in s`
Contains(sub, s) ==
    \E i \in 1..(Len(s) - Len(sub) + 1) : SubSeq(s, i, i + Len(sub) - 1) = sub

Char(s, i) == SubSeq(s, i, i)

\* Python's s.split(sep) for a one-character sep: the list of tokens
RECURSIVE split(_, _)
split(s, sep) ==
    IF ~Contains(sep, s) THEN <<s>>
    ELSE LET i == CHOOSE k \in 1..Len(s) :
                     Char(s, k) = sep /\ \A j \in 1..(k - 1) : Char(s, j) # sep
         IN  <<SubSeq(s, 1, i - 1)>> \o split(SubSeq(s, i + 1, Len(s)), sep)

\* Python's s.rstrip(ch) for a one-character ch
RECURSIVE rstrip(_, _)
rstrip(s, ch) ==
    IF Len(s) > 0 /\ Char(s, Len(s)) = ch THEN rstrip(SubSeq(s, 1, Len(s) - 1), ch)
    ELSE s

RECURSIVE lstrip(_, _)
lstrip(s, ch) ==
    IF Len(s) > 0 /\ Char(s, 1) = ch THEN lstrip(SubSeq(s, 2, Len(s)), ch)
    ELSE s

Digits == {"0", "1", "2", "3", "4", "5", "6", "7", "8", "9"}

DigitVal(c) ==
    CASE c = "0" -> 0 [] c = "1" -> 1 [] c = "2" -> 2 [] c = "3" -> 3
      [] c = "4" -> 4 [] c = "5" -> 5 [] c = "6" -> 6 [] c = "7" -> 7
      [] c = "8" -> 8 [] c = "9" -> 9

RECURSIVE DigitsVal(_)
DigitsVal(s) ==
    IF Len(s) = 0 THEN 0
    ELSE 10 * DigitsVal(SubSeq(s, 1, Len(s) - 1)) + DigitVal(Char(s, Len(s)))

\* Python's int(s) on the characters that occur in headers (letters, digits,
\* space, ":", "-", "+"): surrounding blanks are stripped, one sign is allowed,
\* then one or more digits; anything else raises ValueError ([ok |-> FALSE]).
int(s) ==
    LET t    == rstrip(lstrip(s, " "), " ")
        neg  == Len(t) > 0 /\ Char(t, 1) = "-"
        sgn  == Len(t) > 0 /\ Char(t, 1) \in {"-", "+"}
        body == IF sgn THEN SubSeq(t, 2, Len(t)) ELSE t
    IN  IF Len(body) > 0 /\ \A i \in 1..Len(body) : Char(body, i) \in Digits
        THEN [ok |-> TRUE, val |-> IF neg THEN 0 - DigitsVal(body) ELSE DigitsVal(body)]
        ELSE [ok |-> FALSE, val |-> 0]

(***************************************************************************)
(* Exact arithmetic for the float columns                                  *)
(***************************************************************************)
Abs(n) == IF n < 0 THEN 0 - n ELSE n

Sign(n) == IF n < 0 THEN 0 - 1 ELSE IF n > 0 THEN 1 ELSE 0

RECURSIVE GCD(_, _)
GCD(m, n) == IF n = 0 THEN m ELSE GCD(n, m % n)

\* the rational n/d in lowest terms with d > 0; d = 0 gives the non-finite
\* values of IEEE arithmetic: <<1, 0>> inf, <<-1, 0>> -inf, <<0, 0>> nan
Norm(n, d) ==
    IF d = 0 THEN <<Sign(n), 0>>
    ELSE LET g == GCD(Abs(n), Abs(d))
         IN  <<(Sign(d) * n) \div g, Abs(d) \div g>>

RZero == <<0, 1>>
ROne == <<1, 1>>
RHalf == <<1, 2>>
\* cross-reduced first, so that the products stay small
RMul(x, y) ==
    LET p == Norm(x[1], y[2])
        q == Norm(y[1], x[2])
    IN  IF x[2] = 0 \/ y[2] = 0 THEN <<Sign(x[1]) * Sign(y[1]), 0>>
        ELSE Norm(p[1] * q[1], p[2] * q[2])
RAdd(x, y) ==
    IF x[2] = 0 /\ y[2] = 0 THEN (IF x = y THEN x ELSE <<0, 0>>)
    ELSE IF x[2] = 0 THEN x
    ELSE IF y[2] = 0 THEN y
    ELSE LET g == GCD(x[2], y[2])
         IN  Norm(x[1] * (y[2] \div g) + y[1] * (x[2] \div g), (x[2] \div g) * y[2])
RInv(x) == Norm(x[2], x[1])

RECURSIVE RPowNat(_, _)
RPowNat(x, k) == IF k = 0 THEN ROne ELSE RMul(x, RPowNat(x, k - 1))

RPowInt(x, k) == IF k >= 0 THEN RPowNat(x, k) ELSE RPowNat(RInv(x), 0 - k)

\* a float: the rational c times base^exp; a plain rational has base 1, exp 0
Float(c) == [c |-> c, base |-> ROne, exp |-> RZero]
IntToFloat(v) == Float(<<v, 1>>)

\* At most one factor carries a symbolic power: raw cells and the parameter a
\* are rationals, and only a weight t^b can be irrational.
FMul(x, y) ==
    LET c == RMul(x.c, y.c)
    IN  IF c[1] = 0 \/ c[2] = 0 THEN Float(c)
        ELSE IF x.base = ROne THEN [c |-> c, base |-> y.base, exp |-> y.exp]
        ELSE [c |-> c, base |-> x.base, exp |-> x.exp]

\* Sums are taken along one row, whose cells share the row's factor t^b.
FAdd(x, y) ==
    IF x.c = RZero THEN y
    ELSE IF y.c = RZero THEN x
    ELSE LET c == RAdd(x.c, y.c)
         IN  IF c[1] = 0 \/ c[2] = 0 THEN Float(c)
             ELSE [c |-> c, base |-> x.base, exp |-> x.exp]

RECURSIVE FSum(_)
FSum(s) == IF Len(s) = 0 THEN Float(RZero) ELSE FAdd(s[1], FSum(Tail(s)))

\* numpy's np.power(t, b) for a rational t and a rational exponent b
np_power(t, b) ==
    IF b[2] = 1 THEN Float(RPowInt(t, b[1]))
    ELSE IF t = ROne THEN Float(ROne)
    ELSE IF t = RZero THEN Float(IF b[1] > 0 THEN RZero ELSE <<1, 0>>)
    ELSE IF t[1] < 0 THEN Float(<<0, 0>>)
    ELSE [c |-> ROne, base |-> t, exp |-> b]

(***************************************************************************)
(* Frames                                                                  *)
(***************************************************************************)
None == [none |-> TRUE]
Frame(columns, data) == [none |-> FALSE, columns |-> columns, data |-> data]
Height(df) == Len(df.data["segundos"])

Num(v) == [k |-> "num", v |-> v, s |-> ""]
Str(s) == [k |-> "str", v |-> 0, s |-> s]

\* polars DataFrame.drop on a raw table: the named columns and their cells go
drop(df, cols) ==
    LET keep == SortedSeq({i \in 1..Len(df.columns) : df.columns[i] \notin Range(cols)})
    IN  [columns |-> Pick(df.columns, keep),
         rows    |-> [r \in 1..Len(df.rows) |-> Pick(df.rows[r], keep)]]

\* polars DataFrame.slice(offset) on a raw table
slice(df, offset) ==
    [columns |-> df.columns,
     rows    |-> IF Len(df.rows) <= offset THEN <<>>
                 ELSE SubSeq(df.rows, offset + 1, Len(df.rows))]

\* df[name] as a list of cells
column(df, name) ==
    [r \in 1..Len(df.rows) |-> df.rows[r][IndexOf(df.columns, name)]]

(***************************************************************************)
(* preprocess_data                                                         *)
(***************************************************************************)
\* lines 24-25 with the last identifier missing
EMOTION_COLS_without_Delight ==
    <<"Negative", "Disgust", "Fear", "Sadness", "Skepticism", "Neutral", "Surprise">>

EMOTION_COLS ==
    <<"Negative", "Disgust", "Fear", "Sadness", "Skepticism",
      "Neutral", "Surprise", "Delight">>

EMOTION_TRANSLATION ==
    [e \in Range(EMOTION_COLS) |->
        CASE e = "Negative"   -> "Enojo"
          [] e = "Disgust"    -> "Disgusto"
          [] e = "Fear"       -> "Miedo"
          [] e = "Sadness"    -> "Atención"
          [] e = "Skepticism" -> "Escepticismo"
          [] e = "Neutral"    -> "Neutral"
          [] e = "Surprise"   -> "Sorpresa"
          [] e = "Delight"    -> "Gusto"]

Int16Min == 0 - 32768
Int16Max == 32767

\* what a call of preprocess_data ends in: the frame it returns, or an
\* exception (df = None); format records the branch of line 292 that ran
Returned(format, df) == [ok |-> TRUE, format |-> format, df |-> df]
Raised(format) == [ok |-> FALSE, format |-> format, df |-> None]

\* line 290 with the label column left out of the test
has_interval_cols_skipping_label(df) ==
    \E i \in 2..Len(df.columns) : Contains("s-", df.columns[i])

\* line 290
has_interval_cols(df) == \E i \in 1..Len(df.columns) : Contains("s-", df.columns[i])

\* lines 293-296 with the aggregates taken to be the trailing columns
interval_frame_trailing(df) ==
    LET cols_to_drop == SelectSeq(<<"E AVG", "E MAX">>, LAMBDA c : c \in Range(df.columns))
        n   == Len(df.columns)
        df1 == IF cols_to_drop # <<>>
               THEN drop(df, SubSeq(df.columns, n - Len(cols_to_drop) + 1, n)) ELSE df
    IN  slice(df1, 1)

\* lines 293-296: the frame without the aggregate columns and the first row
interval_frame(df) ==
    LET cols_to_drop == SelectSeq(<<"E AVG", "E MAX">>, LAMBDA c : c \in Range(df.columns))
        df1 == IF cols_to_drop # <<>> THEN drop(df, cols_to_drop) ELSE df
    IN  slice(df1, 1)

\* line 297
interval_time_cols(df) == SelectSeq(df.columns, LAMBDA c : Contains("s-", c))

\* line 298, one element, with 0 standing in for a number that is not there
interval_second_or_zero(c) ==
    LET parsed == int(rstrip(split(c, "-")[2], "s"))
    IN  IF parsed.ok THEN parsed ELSE [ok |-> TRUE, val |-> 0]

\* line 298, one element: int(c.split("-")[1].rstrip("s")); a header with
\* "s-" in it has a second token
interval_second(c) == int(rstrip(split(c, "-")[2], "s"))

\* line 300 without `and c != first_col`
plain_cols_to_drop_with_label(df, first_col) ==
    SelectSeq(df.columns, LAMBDA c : Contains("UNNAMED", c))

\* line 300
plain_cols_to_drop(df, first_col) ==
    SelectSeq(df.columns, LAMBDA c : Contains("UNNAMED", c) /\ c # first_col)

\* lines 300-302
plain_frame(df, first_col) ==
    LET cols_to_drop == plain_cols_to_drop(df, first_col)
    IN  IF cols_to_drop # <<>> THEN drop(df, cols_to_drop) ELSE df

\* line 303
plain_time_cols(df, first_col) == SelectSeq(df.columns, LAMBDA c : c # first_col)

\* line 311 iterating the labels instead of EMOTION_COLS
available_emotions_in_row_order(names) ==
    SelectSeq(names, LAMBDA e : e \in Range(EMOTION_COLS))

\* line 311
available_emotions(names) == SelectSeq(EMOTION_COLS, LAMBDA e : e \in Range(names))

\* lines 306-325: transpose, name the columns after the label cells, add
\* segundos, cast, translate and select.  Raises when the label column is
\* gone, when a label is not a string, when rename finds no column_i or
\* makes two columns of one name, and when a strict cast fails.
transpose_select(df, first_col, time_cols, segundos, format) ==
    IF first_col \notin Range(df.columns) THEN Raised(format)
    ELSE
    LET labels    == column(df, first_col)
        names     == [r \in 1..Len(labels) |-> labels[r].s]
        available == available_emotions(names)
        renamed   == [r \in 1..Len(names) |->
                         IF names[r] \in Range(available)
                         THEN EMOTION_TRANSLATION[names[r]] ELSE names[r]]
        spanish   == [k \in 1..Len(available) |-> EMOTION_TRANSLATION[available[k]]]
        cells(e)  == [k \in 1..Len(time_cols) |->
                         df.rows[IndexOf(names, e)][IndexOf(df.columns, time_cols[k])]]
        eng(c)    == available[IndexOf(spanish, c)]
    IN  IF \E r \in 1..Len(labels) : labels[r].k # "str" THEN Raised(format)
        ELSE IF Len(time_cols) = 0 /\ Len(names) > 0 THEN Raised(format)
        ELSE IF ~NoDuplicates(names) THEN Raised(format)
        ELSE IF \E k \in 1..Len(segundos) :
                    segundos[k] < Int16Min \/ segundos[k] > Int16Max THEN Raised(format)
        ELSE IF \E e \in Range(available) :
                    \E k \in 1..Len(time_cols) : cells(e)[k].k # "num" THEN Raised(format)
        ELSE IF ~NoDuplicates(renamed) THEN Raised(format)
        ELSE Returned(format,
                Frame(<<"segundos">> \o spanish,
                      [c \in {"segundos"} \cup Range(spanish) |->
                          IF c = "segundos" THEN segundos
                          ELSE [k \in 1..Len(time_cols) |-> IntToFloat(cells(eng(c))[k].v)]]))

\* lines 287-325
preprocess_data(df) ==
    IF Len(df.columns) = 0 THEN Raised("none")
    ELSE
    LET first_col == df.columns[1]
        interval  == has_interval_cols(df)
        format    == IF interval THEN "interval" ELSE "plain"
        df1       == IF interval THEN interval_frame(df) ELSE plain_frame(df, first_col)
        time_cols == IF interval THEN interval_time_cols(df1)
                     ELSE plain_time_cols(df1, first_col)
        parsed    == [k \in 1..Len(time_cols) |->
                         IF interval THEN interval_second(time_cols[k])
                         ELSE int(time_cols[k])]
        segundos  == [k \in 1..Len(time_cols) |-> parsed[k].val]
    IN  IF \E k \in 1..Len(time_cols) : ~parsed[k].ok THEN Raised(format)
        ELSE transpose_select(df1, first_col, time_cols, segundos, format)

(***************************************************************************)
(* power_weights, apply_power_weighting                                    *)
(***************************************************************************)
\* lines 327-334 with the weights paired with the seconds in reverse
power_weights_reversed(t, a, b) ==
    LET t1 == [i \in 1..Len(t) |-> IF t[i] = RZero THEN RHalf ELSE t[i]]
    IN  [i \in 1..Len(t) |-> FMul(Float(a), np_power(t1[Len(t) + 1 - i], b))]

\* lines 327-334 with 0 replaced by 1 instead of 0.5
power_weights_zero_as_one(t, a, b) ==
    LET t1 == [i \in 1..Len(t) |-> IF t[i] = RZero THEN ROne ELSE t[i]]
    IN  [i \in 1..Len(t) |-> FMul(Float(a), np_power(t1[i], b))]

\* lines 327-334 with normalize=False, as both call sites (339, 560) leave it
power_weights(t, a, b) ==
    LET t1 == [i \in 1..Len(t) |-> IF t[i] = RZero THEN RHalf ELSE t[i]]
    IN  [i \in 1..Len(t) |-> FMul(Float(a), np_power(t1[i], b))]

\* lines 336-346 as df.with_columns(...): the emotion columns are kept
apply_power_weighting_with_columns(df, a, b) ==
    LET segundos     == df.data["segundos"]
        weights      == power_weights([i \in 1..Len(segundos) |-> <<segundos[i], 1>>], a, b)
        emotion_cols == SelectSeq(df.columns, LAMBDA col : col # "segundos")
        pw           == [k \in 1..Len(emotion_cols) |-> emotion_cols[k] \o "_pw"]
    IN  Frame(<<"segundos", "peso_temporal">> \o emotion_cols \o pw,
              [c \in {"segundos", "peso_temporal"} \cup Range(emotion_cols) \cup Range(pw) |->
                  IF c = "segundos" THEN segundos
                  ELSE IF c = "peso_temporal" THEN weights
                  ELSE IF c \in Range(emotion_cols) THEN df.data[c]
                  ELSE LET col == emotion_cols[IndexOf(pw, c)]
                       IN  [i \in 1..Len(segundos) |-> FMul(df.data[col][i], weights[i])]])

\* lines 336-346
apply_power_weighting(df, a, b) ==
    LET segundos     == df.data["segundos"]
        weights      == power_weights([i \in 1..Len(segundos) |-> <<segundos[i], 1>>], a, b)
        emotion_cols == SelectSeq(df.columns, LAMBDA col : col # "segundos")
        pw           == [k \in 1..Len(emotion_cols) |-> emotion_cols[k] \o "_pw"]
    IN  Frame(<<"segundos", "peso_temporal">> \o pw,
              [c \in {"segundos", "peso_temporal"} \cup Range(pw) |->
                  IF c = "segundos" THEN segundos
                  ELSE IF c = "peso_temporal" THEN weights
                  ELSE LET col == emotion_cols[IndexOf(pw, c)]
                       IN  [i \in 1..Len(segundos) |-> FMul(df.data[col][i], weights[i])]])

(***************************************************************************)
(* Presentation: create_plot, create_bar_chart                             *)
(***************************************************************************)
\* df.filter(pl.col("segundos") < max_sec): a new frame, df itself is kept
filter_lt(df, max_sec) ==
    LET seg  == df.data["segundos"]
        keep == SortedSeq({i \in 1..Len(seg) : seg[i] < max_sec})
    IN  Frame(df.columns, [c \in DOMAIN df.data |-> Pick(df.data[c], keep)])

\* df["segundos"].max() of a frame with a row
seg_max(df) ==
    LET seg == df.data["segundos"]
    IN  CHOOSE m \in Range(seg) : \A x \in Range(seg) : x <= m

drop_last(df, max_of) == IF Height(max_of) = 0 THEN df ELSE filter_lt(df, seg_max(max_of))

NoBar == [segundos |-> <<>>, positivo |-> <<>>, neutral |-> <<>>]

\* lines 394-395
neutral_cols ==
    <<"Enojo_pw", "Disgusto_pw", "Miedo_pw", "Atención_pw", "Escepticismo_pw", "Sorpresa_pw">>

\* lines 376-431, called with self.df_weighted present (show_bar_chart and
\* export_all handle the None it returns otherwise): the two bar series
create_bar_chart(stored, remove_last) ==
    LET df        == IF remove_last THEN drop_last(stored, stored) ELSE stored
        segundos  == df.data["segundos"]
        zeros     == [i \in 1..Len(segundos) |-> IntToFloat(0)]
        positivo  == IF "Gusto_pw" \in Range(df.columns) THEN df.data["Gusto_pw"] ELSE zeros
        available == SelectSeq(neutral_cols, LAMBDA c : c \in Range(df.columns))
        neutral   == IF available # <<>>
                     THEN [i \in 1..Len(segundos) |->
                              FSum([k \in 1..Len(available) |-> df.data[available[k]][i]])]
                     ELSE zeros
    IN  [segundos |-> segundos, positivo |-> positivo, neutral |-> neutral]

\* lines 433-487, called with self.df_original present: the traces of the
\* figure, or an exception (ok = FALSE) when df_weighted is None or lacks a
\* <col>_pw column that a visible emotion needs
create_plot(orig, weight, remove_last, shown) ==
    LET emotion_cols == SelectSeq(orig.columns, LAMBDA c : c # "segundos")
        drawn        == SelectSeq(emotion_cols, LAMBDA c : c \in shown)
        df_orig      == IF remove_last THEN drop_last(orig, orig) ELSE orig
        df_weight    == IF remove_last /\ ~weight.none THEN drop_last(weight, orig) ELSE weight
        pw(c)        == c \o "_pw"
    IN  IF remove_last /\ weight.none THEN [ok |-> FALSE, traces |-> <<>>]
        ELSE IF drawn # <<>> /\ weight.none THEN [ok |-> FALSE, traces |-> <<>>]
        ELSE IF \E k \in 1..Len(drawn) : pw(drawn[k]) \notin Range(weight.columns)
             THEN [ok |-> FALSE, traces |-> <<>>]
        ELSE [ok |-> TRUE,
              traces |-> [k \in 1..(2 * Len(drawn)) |->
                  LET c == drawn[(k + 1) \div 2]
                  IN  IF k % 2 = 1
                      THEN [name |-> c, x |-> df_orig.data["segundos"], y |-> df_orig.data[c]]
                      ELSE [name |-> c \o " (Pond.)", x |-> df_weight.data["segundos"],
                            y |-> df_weight.data[pw(c)]]]]

(***************************************************************************)
(* The application: state after __init__ and one action per handler        *)
(***************************************************************************)
DoubleVar(x) == [valid |-> TRUE, val |-> x]
\* an entry whose text Tk cannot read as a float: get() raises TclError
BadDouble == [valid |-> FALSE, val |-> RZero]

A_DEFAULT == <<45167, 10000>>
B_DEFAULT == <<0 - 228, 1000>>

AFloats == {A_DEFAULT, <<1, 1>>}
BFloats == {Norm(B_DEFAULT[1], B_DEFAULT[2]), <<0, 1>>, <<0 - 1, 1>>}

AllEmotions == {EMOTION_TRANSLATION[e] : e \in Range(EMOTION_COLS)}

Result(op, status) == [op |-> op, status |-> status, plot |-> <<>>, bar |-> NoBar]

\* a spreadsheet row: the label, then cell 10 * r + c in row r, column c
DataRow(label, r, ncols) == <<Str(label)>> \o [c \in 1..ncols |-> Num(10 * r + c)]
MetaRow(ncols) == <<Str("Emotion")>> \o [c \in 1..ncols |-> Str("x")]
Table(columns, labels, meta) ==
    [columns |-> columns,
     rows    |-> (IF meta THEN <<MetaRow(Len(columns) - 1)>> ELSE <<>>)
                 \o [r \in 1..Len(labels) |-> DataRow(labels[r], r, Len(columns) - 1)]]

\* the files the user can pick: pl.read_excel raises for an unreadable one
Files ==
    [name \in {"unreadable.xlsx", "interval.xlsx", "plain.xlsx", "nocolumns.xlsx"} |->
        CASE name = "unreadable.xlsx" -> [readable |-> FALSE, table |-> Table(<<>>, <<>>, FALSE)]
          [] name = "interval.xlsx"   ->
                [readable |-> TRUE,
                 table |-> Table(<<"Emotion", "s-1s", "s-2s", "E AVG">>,
                                 <<"Negative", "Delight">>, TRUE)]
          [] name = "plain.xlsx"      ->
                [readable |-> TRUE,
                 table |-> Table(<<"Emotion", "0", "1", "2">>,
                                 <<"Delight", "Neutral", "Sadness">>, FALSE)]
          [] name = "nocolumns.xlsx"  ->
                [readable |-> TRUE,
                 table |-> Table(<<"Emotion">>, <<"Negative", "Delight">>, FALSE)]]

Idle ==
    /\ raw_df = Table(<<>>, <<>>, FALSE)
    /\ tidy = Raised("none")
    /\ weighted = None
    /\ pc = "app"

\* lines 103-127
Init ==
    /\ filepath = ""
    /\ a_param = DoubleVar(A_DEFAULT)
    /\ b_param = DoubleVar(Norm(B_DEFAULT[1], B_DEFAULT[2]))
    /\ remove_last_second = FALSE
    /\ visible = AllEmotions
    /\ df_original = None
    /\ df_weighted = None
    /\ last = Result("init", "ok")
    /\ Idle

pipeline == <<raw_df, tidy, weighted, pc>>

\* lines 277-285: the dialog returns a path, or "" when it is dismissed
select_file ==
    /\ \E path \in DOMAIN Files \cup {""} :
          filepath' = IF path # "" THEN path ELSE filepath
    /\ last' = Result("select_file", "ok")
    /\ UNCHANGED <<a_param, b_param, remove_last_second, visible, df_original,
                   df_weighted, pipeline>>

\* lines 148-151: the user types into the entries bound to a_param, b_param
edit_a_param ==
    /\ a_param' \in {DoubleVar(x) : x \in AFloats} \cup {BadDouble}
    /\ last' = Result("edit_a_param", "ok")
    /\ UNCHANGED <<filepath, b_param, remove_last_second, visible, df_original,
                   df_weighted, pipeline>>

edit_b_param ==
    /\ b_param' \in {DoubleVar(x) : x \in BFloats} \cup {BadDouble}
    /\ last' = Result("edit_b_param", "ok")
    /\ UNCHANGED <<filepath, a_param, remove_last_second, visible, df_original,
                   df_weighted, pipeline>>

\* lines 152-153: the "Quitar último segundo" check button
toggle_remove_last_second ==
    /\ remove_last_second' = ~remove_last_second
    /\ last' = Result("toggle_remove_last_second", "ok")
    /\ UNCHANGED <<filepath, a_param, b_param, visible, df_original, df_weighted, pipeline>>

\* lines 257-259
show_all_emotions ==
    /\ visible' = AllEmotions
    /\ last' = Result("show_all_emotions", "ok")
    /\ UNCHANGED <<filepath, a_param, b_param, remove_last_second, df_original,
                   df_weighted, pipeline>>

\* lines 261-263
hide_all_emotions ==
    /\ visible' = {}
    /\ last' = Result("hide_all_emotions", "ok")
    /\ UNCHANGED <<filepath, a_param, b_param, remove_last_second, df_original,
                   df_weighted, pipeline>>

\* lines 348-374: each assignment to self happens where the code makes it,
\* so an exception raised after line 359 finds df_original already replaced
process_data ==
    /\ UNCHANGED <<filepath, a_param, b_param, remove_last_second, visible, pipeline>>
    /\ IF filepath = ""
       THEN /\ last' = Result("process_data", "warning")
            /\ UNCHANGED <<df_original, df_weighted>>
       ELSE IF ~Files[filepath].readable
       THEN /\ last' = Result("process_data", "error")
            /\ UNCHANGED <<df_original, df_weighted>>
       ELSE LET pre == preprocess_data(Files[filepath].table)
            IN  IF ~pre.ok
                THEN /\ last' = Result("process_data", "error")
                     /\ UNCHANGED <<df_original, df_weighted>>
                ELSE /\ df_original' = pre.df
                     /\ IF ~a_param.valid \/ ~b_param.valid
                        THEN /\ last' = Result("process_data", "error")
                             /\ UNCHANGED df_weighted
                        ELSE /\ df_weighted' =
                                    apply_power_weighting(pre.df, a_param.val, b_param.val)
                             /\ last' = Result("process_data", "ok")

\* lines 489-503
show_plot ==
    /\ UNCHANGED <<filepath, a_param, b_param, remove_last_second, visible,
                   df_original, df_weighted, pipeline>>
    /\ IF df_original.none
       THEN last' = Result("show_plot", "warning")
       ELSE LET fig == create_plot(df_original, df_weighted, remove_last_second, visible)
            IN  last' = IF fig.ok
                        THEN [Result("show_plot", "ok") EXCEPT !.plot = fig.traces]
                        ELSE Result("show_plot", "error")

\* lines 505-519 with the filter of line 386 applied to self.df_weighted
show_bar_chart_truncating ==
    /\ UNCHANGED <<filepath, a_param, b_param, remove_last_second, visible,
                   df_original, pipeline>>
    /\ IF df_weighted.none
       THEN /\ last' = Result("show_bar_chart", "warning")
            /\ UNCHANGED df_weighted
       ELSE /\ df_weighted' = IF remove_last_second
                              THEN drop_last(df_weighted, df_weighted) ELSE df_weighted
            /\ last' = [Result("show_bar_chart", "ok") EXCEPT
                           !.bar = create_bar_chart(df_weighted, remove_last_second)]

\* lines 505-519
show_bar_chart ==
    /\ UNCHANGED <<filepath, a_param, b_param, remove_last_second, visible,
                   df_original, df_weighted, pipeline>>
    /\ IF df_weighted.none
       THEN last' = Result("show_bar_chart", "warning")
       ELSE last' = [Result("show_bar_chart", "ok") EXCEPT
                        !.bar = create_bar_chart(df_weighted, remove_last_second)]

\* lines 521-583: the directory dialog may be dismissed; the first exception
\* (df_weighted None, a plot that cannot be drawn, a parameter entry Tk
\* cannot read) ends the export
export_all ==
    /\ UNCHANGED <<filepath, a_param, b_param, remove_last_second, visible,
                   df_original, df_weighted, pipeline>>
    /\ IF df_original.none
       THEN last' = Result("export_all", "warning")
       ELSE \E export_dir \in {"", "out"} :
              IF export_dir = ""
              THEN last' = Result("export_all", "cancelled")
              ELSE LET fig == create_plot(df_original, df_weighted, remove_last_second, visible)
                   IN  IF df_weighted.none \/ ~fig.ok \/ ~a_param.valid \/ ~b_param.valid
                       THEN last' = Result("export_all", "error")
                       ELSE last' = [Result("export_all", "ok") EXCEPT
                                !.plot = fig.traces,
                                !.bar = create_bar_chart(df_weighted, remove_last_second)]

Next ==
    \/ select_file
    \/ edit_a_param
    \/ edit_b_param
    \/ toggle_remove_last_second
    \/ show_all_emotions
    \/ hide_all_emotions
    \/ process_data
    \/ show_plot
    \/ show_bar_chart
    \/ export_all

Spec == Init /\ [][Next]_vars

(***************************************************************************)
(* Pipeline runs: preprocess_data, then apply_power_weighting, on every    *)
(* table of a bounded family and every pair of parameters                  *)
(***************************************************************************)
MaxRows == 2

InsertAt(s, i, x) == SubSeq(s, 1, i) \o <<x>> \o SubSeq(s, i + 1, Len(s))

IntervalBase == <<"Emotion", "s-1s", "s-2s">>

\* IntervalBase with "E AVG", "E MAX", or both in either order, at every
\* position after the label column
WithAggregates ==
    LET one(g)      == {InsertAt(IntervalBase, i, g) : i \in 1..3}
        two(g1, g2) == UNION {{InsertAt(h, i, g2) : i \in 1..4} : h \in one(g1)}
    IN  one("E AVG") \cup one("E MAX") \cup two("E AVG", "E MAX") \cup two("E MAX", "E AVG")

IntervalHeaders ==
    {IntervalBase} \cup WithAggregates \cup
    { <<"Emotion", "s-2s", "s-1s">>,             \* seconds not ascending
      <<"Emotion", "0s-1s", "s-1s">>,            \* one second twice
      <<"Emotion", "s-0s", "s-1s", "s-2s">>,     \* second 0
      <<"Emotion", "s-1s", "Notes">>,            \* a column that is no time column
      <<"Emotion", "s-1s", "s-xs">>,             \* no number after the marker
      <<"Emotions-id", "1", "2">>,               \* the marker in the label header only
      <<"E AVG", "s-1s", "s-2s">> }              \* an aggregate as first column

PlainHeaders ==
    { <<"Emotion", "0", "1", "2">>,
      <<"Emotion", "2", "1">>,
      <<"Emotion", "1", "__UNNAMED__2", "2">>,
      <<"Emotion", "UNNAMED", "1">>,
      <<"Emotion", "1", "Unnamed: 3">>,
      <<"Emotion", "unnamed", "1">>,
      <<"__UNNAMED__0", "1", "2">>,
      <<"Emotion", "1", "E MAX">>,
      <<"Emotion">> }

Labels == {"Negative", "Delight", "Neutral", "Other"}

LabelLists == UNION {[1..n -> Labels] : n \in 1..MaxRows}

EmptyTable == [columns |-> <<>>, rows |-> <<>>]

\* a label that is no English identifier but the translated name of one
TranslatedLabelTable == Table(<<"Emotion", "1", "2">>, <<"Delight", "Gusto">>, FALSE)

\* one unrecognized label on two rows
RepeatedLabelTable ==
    Table(<<"Emotion", "s-1s", "s-2s">>, <<"Other", "Negative", "Other">>, TRUE)

RawTables ==
    {Table(h, l, TRUE) : h \in IntervalHeaders, l \in LabelLists}
    \cup {Table(h, l, FALSE) : h \in PlainHeaders, l \in LabelLists}
    \cup {EmptyTable, TranslatedLabelTable, RepeatedLabelTable}

PipelineInit ==
    /\ filepath = ""
    /\ a_param \in {DoubleVar(x) : x \in AFloats}
    /\ b_param \in {DoubleVar(x) : x \in BFloats}
    /\ remove_last_second = FALSE
    /\ visible = AllEmotions
    /\ df_original = None
    /\ df_weighted = None
    /\ last = Result("init", "ok")
    /\ raw_df \in RawTables
    /\ tidy = Raised("none")
    /\ weighted = None
    /\ pc = "start"

app == <<filepath, a_param, b_param, remove_last_second, visible,
         df_original, df_weighted, last>>

\* line 359
call_preprocess_data ==
    /\ pc = "start"
    /\ tidy' = preprocess_data(raw_df)
    /\ pc' = "preprocessed"
    /\ UNCHANGED <<app, raw_df, weighted>>

\* lines 361-364
call_apply_power_weighting ==
    /\ pc = "preprocessed"
    /\ tidy.ok
    /\ weighted' = apply_power_weighting(tidy.df, a_param.val, b_param.val)
    /\ pc' = "weighted"
    /\ UNCHANGED <<app, raw_df, tidy>>

PipelineNext ==
    \/ call_preprocess_data
    \/ call_apply_power_weighting

PipelineSpec == PipelineInit /\ [][PipelineNext]_vars

(***************************************************************************)
(* Properties                                                              *)
(***************************************************************************)
\* the label cells of the rows that become tidy columns: in the interval
\* layout the first row is metadata
EmotionRows(raw, format) ==
    IF format = "interval" /\ Len(raw.rows) > 0 THEN Tail(raw.rows) ELSE raw.rows
LabelsOf(raw, format) ==
    LET rows == EmotionRows(raw, format) IN [r \in 1..Len(rows) |-> rows[r][1].s]
\* the labels are pairwise distinct, and none is the translated name of
\* another label of the table (line 321 would then make two columns of it)
WellLabelled(raw, format) ==
    LET labels == LabelsOf(raw, format)
    IN  /\ NoDuplicates(labels)
        /\ \A l \in Range(labels) \cap Range(EMOTION_COLS) :
              EMOTION_TRANSLATION[l] = l \/ EMOTION_TRANSLATION[l] \notin Range(labels)
HasMarker(raw) == \E c \in Range(raw.columns) : Contains("s-", c)
Preprocessed == pc \in {"preprocessed", "weighted"}
EmotionColumns(df) == SelectSeq(df.columns, LAMBDA c : c # "segundos")

\* C1: a process_data call that fails leaves df_original and df_weighted
\* exactly as they were before the call.
C1_FailedProcessKeepsStored ==
    [][(process_data /\ last'.status = "error")
          => (df_original' = df_original /\ df_weighted' = df_weighted)]_vars

\* C2: preprocess_data takes the interval branch if and only if some column
\* name, the label column's included, contains "s-", and the plain branch
\* otherwise (for a table that has a label column; a table with no column
\* raises at line 289, before the dispatch).
C2_FormatDetection ==
    (Preprocessed /\ Len(raw_df.columns) > 0) =>
        /\ tidy.format = "interval" <=> HasMarker(raw_df)
        /\ tidy.format = "plain" <=> ~HasMarker(raw_df)

C2_Witness ==
    /\ pc = "preprocessed"
    /\ raw_df.columns = <<"Emotions-id", "1", "2">>
    /\ tidy.format = "interval"

\* lower case of the letters of "UNNAMED"; no other character lowers to one
LowerChar(c) ==
    CASE c = "U" -> "u" [] c = "N" -> "n" [] c = "A" -> "a"
      [] c = "M" -> "m" [] c = "E" -> "e" [] c = "D" -> "d" [] OTHER -> c
ContainsUnnamedAnyCase(s) ==
    \E i \in 1..(Len(s) - 6) :
        \A k \in 0..6 : LowerChar(Char(s, i + k)) = Char("unnamed", k + 1)

\* a plain-format table as the claim describes it: no marker, distinct
\* labels, every non-label header a placeholder or an integer, one at least
ValidPlainWith(raw, IsPlaceholder(_)) ==
    /\ Len(raw.columns) > 0
    /\ ~HasMarker(raw)
    /\ WellLabelled(raw, "plain")
    /\ \A i \in 2..Len(raw.columns) :
          IsPlaceholder(raw.columns[i]) \/ int(raw.columns[i]).ok
    /\ \E i \in 2..Len(raw.columns) : ~IsPlaceholder(raw.columns[i])
SecondsLeft(raw, IsPlaceholder(_)) ==
    LET kept == SelectSeq(Tail(raw.columns), LAMBDA c : ~IsPlaceholder(c))
    IN  [k \in 1..Len(kept) |-> int(kept[k]).val]

\* C3 as claimed: on a valid plain-format table the non-label columns whose
\* name contains "unnamed" in any letter case are dropped, and the tidy
\* table has one row per other non-label column, its header as an integer.
C3_AnyCasePlaceholders ==
    (Preprocessed /\ ValidPlainWith(raw_df, ContainsUnnamedAnyCase)) =>
        /\ tidy.ok
        /\ tidy.df.data["segundos"] = SecondsLeft(raw_df, ContainsUnnamedAnyCase)

IsUpperPlaceholder(c) == Contains("UNNAMED", c)

\* C3 amended: the columns dropped are the non-label columns whose name
\* contains the upper-case "UNNAMED", and nothing else; the tidy table has
\* one row per remaining non-label column, its header as an integer.
C3_UpperCasePlaceholders ==
    (Preprocessed /\ ValidPlainWith(raw_df, IsUpperPlaceholder)) =>
        /\ tidy.ok
        /\ tidy.df.data["segundos"] = SecondsLeft(raw_df, IsUpperPlaceholder)
        /\ Height(tidy.df) =
              Cardinality({i \in 2..Len(raw_df.columns) : ~IsUpperPlaceholder(raw_df.columns[i])})

C3_Witness ==
    /\ pc = "preprocessed"
    /\ raw_df.columns = <<"__UNNAMED__0", "1", "2">>
    /\ tidy.ok
    /\ tidy.df.data["segundos"] = <<1, 2>>

RecognizedInRowOrder(raw, format) ==
    LET kept == SelectSeq(LabelsOf(raw, format), LAMBDA l : l \in Range(EMOTION_COLS))
    IN  [k \in 1..Len(kept) |-> EMOTION_TRANSLATION[kept[k]]]

\* C4 as claimed: segundos is first and the emotion columns follow in the
\* order of their labels in the rows of the input.
C4_RowOrder ==
    (Preprocessed /\ tidy.ok) =>
        tidy.df.columns = <<"segundos">> \o RecognizedInRowOrder(raw_df, tidy.format)

ListPosition(c) ==
    CHOOSE i \in 1..Len(EMOTION_COLS) : EMOTION_TRANSLATION[EMOTION_COLS[i]] = c

\* C4 amended: segundos is first and the emotion columns, one per recognized
\* label of the input, follow in the order of the fixed list EMOTION_COLS,
\* whatever the order of the rows.
C4_FixedListOrder ==
    (Preprocessed /\ tidy.ok) =>
        LET cols == tidy.df.columns
        IN  /\ cols[1] = "segundos"
            /\ {cols[i] : i \in 2..Len(cols)} = Range(RecognizedInRowOrder(raw_df, tidy.format))
            /\ \A i, j \in 2..Len(cols) :
                  i < j => ListPosition(cols[i]) < ListPosition(cols[j])

C4_Witness ==
    /\ pc = "preprocessed"
    /\ tidy.ok
    /\ LabelsOf(raw_df, tidy.format) = <<"Delight", "Negative">>
    /\ tidy.df.columns = <<"segundos", "Enojo", "Gusto">>

IsAggregate(c) == c \in {"E AVG", "E MAX"}

\* an interval-format table as the claim describes it: the label column,
\* then aggregates and time columns "...s-<n>s" in any order, distinct labels
ValidInterval(raw) ==
    /\ Len(raw.columns) > 1
    /\ ~IsAggregate(raw.columns[1]) /\ ~Contains("s-", raw.columns[1])
    /\ \A i \in 2..Len(raw.columns) :
          \/ IsAggregate(raw.columns[i])
          \/ Contains("s-", raw.columns[i]) /\ interval_second(raw.columns[i]).ok
    /\ \E i \in 2..Len(raw.columns) : ~IsAggregate(raw.columns[i])
    /\ WellLabelled(raw, "interval")

WithoutAggregates(raw) ==
    LET keep == SortedSeq({i \in 1..Len(raw.columns) : ~IsAggregate(raw.columns[i])})
    IN  [columns |-> [k \in 1..Len(keep) |-> raw.columns[keep[k]]],
         rows    |-> [r \in 1..Len(raw.rows) |->
                         [k \in 1..Len(keep) |-> raw.rows[r][keep[k]]]]]

\* C5: on a valid interval-format table the tidy table has one row per
\* time column left once "E AVG" and "E MAX" are gone, and it is the tidy
\* table of the same input without its aggregate columns, wherever they stood.
C5_IntervalRowCount ==
    (Preprocessed /\ ValidInterval(raw_df)) =>
        /\ tidy.ok
        /\ Height(tidy.df) =
              Cardinality({i \in 2..Len(raw_df.columns) : ~IsAggregate(raw_df.columns[i])})
        /\ tidy = preprocess_data(WithoutAggregates(raw_df))

C5_Witness ==
    /\ pc = "preprocessed"
    /\ raw_df.columns = <<"Emotion", "E MAX", "s-1s", "E AVG", "s-2s">>
    /\ tidy.ok
    /\ Height(tidy.df) = 2

PwNames(df) == {c \o "_pw" : c \in Range(EmotionColumns(df))}

\* C6 as claimed: the weighted table has exactly 2 + 2*E columns: segundos,
\* peso_temporal, and for every emotion both <emotion> and <emotion>_pw.
C6_TwoColumnsPerEmotion ==
    pc = "weighted" =>
        /\ Len(weighted.columns) = 2 + 2 * Len(EmotionColumns(tidy.df))
        /\ Range(weighted.columns) =
              {"segundos", "peso_temporal"} \cup Range(EmotionColumns(tidy.df))
                  \cup PwNames(tidy.df)

\* C6 amended: the weighted table has exactly 2 + E columns: segundos,
\* peso_temporal and <emotion>_pw for every emotion column of the tidy
\* input; the <emotion> columns themselves stay in the tidy table only.
C6_OneColumnPerEmotion ==
    pc = "weighted" =>
        /\ Len(weighted.columns) = 2 + Len(EmotionColumns(tidy.df))
        /\ NoDuplicates(weighted.columns)
        /\ Range(weighted.columns) = {"segundos", "peso_temporal"} \cup PwNames(tidy.df)
        /\ DOMAIN weighted.data = Range(weighted.columns)

C6_Witness ==
    /\ pc = "weighted"
    /\ EmotionColumns(tidy.df) = <<"Enojo", "Gusto">>
    /\ weighted.columns = <<"segundos", "peso_temporal", "Enojo_pw", "Gusto_pw">>

\* a * t^b, unnormalized, with second 0 weighted as 0.5
WeightOf(t, a, b) == FMul(Float(a), np_power(IF t = 0 THEN RHalf ELSE <<t, 1>>, b))

\* C7: row i of peso_temporal is the unnormalized weight of row i of
\* segundos, whatever the order or repetition of the seconds, and row i of
\* <c>_pw is row i of c times row i of peso_temporal; with a = 1 and b = 0
\* every weight is 1 and every <c>_pw equals c.
C7_RowwiseWeighting ==
    pc = "weighted" =>
        LET seg == tidy.df.data["segundos"]
            w   == weighted.data["peso_temporal"]
        IN  /\ Len(w) = Len(seg)
            /\ \A i \in 1..Len(seg) :
                  /\ w[i] = WeightOf(seg[i], a_param.val, b_param.val)
                  /\ \A c \in Range(EmotionColumns(tidy.df)) :
                        weighted.data[c \o "_pw"][i] = FMul(tidy.df.data[c][i], w[i])
            /\ (a_param.val = ROne /\ b_param.val = RZero) =>
                  /\ \A i \in 1..Len(seg) : w[i] = Float(ROne)
                  /\ \A c \in Range(EmotionColumns(tidy.df)) :
                        weighted.data[c \o "_pw"] = tidy.df.data[c]

C7_Witness ==
    /\ pc = "weighted"
    /\ tidy.df.data["segundos"] = <<2, 1>>
    /\ b_param.val = <<0 - 1, 1>>
    /\ a_param.val = ROne
    /\ weighted.data["peso_temporal"] = <<Float(RHalf), Float(ROne)>>
    /\ "Gusto_pw" \in DOMAIN weighted.data

\* C8: second 0 gets the weight of second 0.5 and every other second t the
\* weight a * t^b; the segundos columns of the weighted table and of the
\* tidy table still hold 0 in that row.
C8_ZeroSecond ==
    pc = "weighted" =>
        LET seg == tidy.df.data["segundos"]
            w   == weighted.data["peso_temporal"]
        IN  /\ weighted.data["segundos"] = seg
            /\ \A i \in 1..Len(seg) :
                  /\ seg[i] = 0 =>
                        w[i] = power_weights(<<RHalf>>, a_param.val, b_param.val)[1]
                  /\ seg[i] # 0 =>
                        w[i] = FMul(Float(a_param.val), np_power(<<seg[i], 1>>, b_param.val))
            /\ tidy = preprocess_data(raw_df)

C8_Witness ==
    /\ pc = "weighted"
    /\ tidy.df.data["segundos"] = <<0, 1, 2>>
    /\ weighted.data["segundos"] = <<0, 1, 2>>
    /\ a_param.val = ROne
    /\ b_param.val = <<0 - 1, 1>>
    /\ weighted.data["peso_temporal"][1] = Float(<<2, 1>>)

\* C9: in the bar chart the neutral value of every time step is the sum of
\* every weighted emotion column of that row other than Gusto_pw, so that
\* positive + neutral is the row-wise sum of all _pw columns.
C9_PositivePlusNeutralIsRowSum ==
    (last.op = "show_bar_chart" /\ last.status = "ok") =>
        LET df == IF remove_last_second THEN drop_last(df_weighted, df_weighted)
                  ELSE df_weighted
            pw == SelectSeq(df.columns, LAMBDA c : c \notin {"segundos", "peso_temporal"})
        IN  \A i \in 1..Height(df) :
               /\ last.bar.neutral[i] =
                     FSum([k \in 1..Len(SelectSeq(pw, LAMBDA c : c # "Gusto_pw")) |->
                              df.data[SelectSeq(pw, LAMBDA c : c # "Gusto_pw")[k]][i]])
               /\ FAdd(last.bar.positivo[i], last.bar.neutral[i]) =
                     FSum([k \in 1..Len(pw) |-> df.data[pw[k]][i]])

\* C10: show_plot, show_bar_chart and export_all leave df_original and
\* df_weighted unchanged, with the 'drop last second' flag set or not; with
\* the flag set the rows of the largest second are missing from what is
\* plotted and still present in the stored table.
C10_PresentationReadOnly ==
    [][last'.op \in {"show_plot", "show_bar_chart", "export_all"} =>
          /\ df_original' = df_original
          /\ df_weighted' = df_weighted
          /\ (last'.op = "show_bar_chart" /\ last'.status = "ok" /\ remove_last_second) =>
                /\ seg_max(df_weighted) \notin Range(last'.bar.segundos)
                /\ seg_max(df_weighted') \in Range(df_weighted'.data["segundos"])]_vars

C10_Witness ==
    /\ last.op = "show_bar_chart"
    /\ last.status = "ok"
    /\ remove_last_second
    /\ Len(last.bar.segundos) < Height(df_weighted)
    /\ ~df_original.none

\* the fixed set and the translation table, as the claim lists them
RecognizedLabels ==
    {"Negative", "Disgust", "Fear", "Sadness", "Skepticism", "Neutral", "Surprise", "Delight"}
DisplayName(l) ==
    CASE l = "Negative" -> "Enojo"      [] l = "Disgust"  -> "Disgusto"
      [] l = "Fear"     -> "Miedo"      [] l = "Sadness"  -> "Atención"
      [] l = "Skepticism" -> "Escepticismo" [] l = "Neutral" -> "Neutral"
      [] l = "Surprise" -> "Sorpresa"   [] l = "Delight"  -> "Gusto"

\* the table without the rows whose label is not recognized (the first row
\* of the interval layout, which is metadata, stays)
WithoutUnrecognized(raw, format) ==
    LET meta == format = "interval" /\ Len(raw.rows) > 0
        keep == SortedSeq({r \in 1..Len(raw.rows) :
                    (meta /\ r = 1) \/ raw.rows[r][1].s \in RecognizedLabels})
    IN  [columns |-> raw.columns, rows |-> [k \in 1..Len(keep) |-> raw.rows[keep[k]]]]

\* the positions of the time columns among the columns of the input
TimePositions(raw, format) ==
    SortedSeq({i \in 1..Len(raw.columns) :
        IF format = "interval" THEN Contains("s-", raw.columns[i])
        ELSE i > 1 /\ ~IsUpperPlaceholder(raw.columns[i])})

\* what a returned tidy table holds: one column per recognized label, under
\* its translated name, with the cells of that label's row at the time columns
RecognizedColumnsKept ==
    (Preprocessed /\ tidy.ok) =>
        LET rows   == EmotionRows(raw_df, tidy.format)
            labels == LabelsOf(raw_df, tidy.format)
            pos    == TimePositions(raw_df, tidy.format)
        IN  /\ Range(EmotionColumns(tidy.df)) =
                  {DisplayName(l) : l \in Range(labels) \cap RecognizedLabels}
            /\ \A r \in 1..Len(rows) :
                  labels[r] \in RecognizedLabels =>
                      tidy.df.data[DisplayName(labels[r])] =
                          [k \in 1..Len(pos) |-> IntToFloat(rows[r][pos[k]].v)]

\* the rows with another label change nothing: the call ends as it does on
\* the table without them, when that table is accepted
UnrecognizedRowsIgnored ==
    LET stripped == preprocess_data(WithoutUnrecognized(raw_df, tidy.format))
    IN  stripped.ok => tidy = stripped

HasRecognizedLabel ==
    Range(LabelsOf(raw_df, tidy.format)) \cap RecognizedLabels # {}

LayoutOf(raw) == IF HasMarker(raw) THEN "interval" ELSE "plain"

\* the characters that have to be an integer: the header itself, or what
\* stands between the first "-" and the trailing "s" of an interval header
SecondText(c, format) ==
    IF format = "interval" THEN rstrip(split(c, "-")[2], "s") ELSE c

\* the three malformed shapes: no column at all, no time column left once
\* the known columns are gone, a time column whose name holds no integer
Malformed(raw) ==
    \/ Len(raw.columns) = 0
    \/ TimePositions(raw, LayoutOf(raw)) = <<>>
    \/ \E i \in Range(TimePositions(raw, LayoutOf(raw))) :
          ~int(SecondText(raw.columns[i], LayoutOf(raw))).ok

\* C12: on a malformed input (no label column, no time column left, or a
\* time-column name that is no integer or interval) preprocess_data ends in
\* an error and returns no table; a table it does return is never partial:
\* it has one row per time column, in every column.
C12_NoPartialTable ==
    Preprocessed =>
        /\ Malformed(raw_df) => (~tidy.ok /\ tidy.df = None)
        /\ tidy.ok =>
              \A c \in Range(tidy.df.columns) :
                  Len(tidy.df.data[c]) = Len(TimePositions(raw_df, LayoutOf(raw_df)))

C12_Witness ==
    /\ pc = "preprocessed"
    /\ raw_df.columns = <<"Emotion", "s-1s", "s-xs">>
    /\ LabelsOf(raw_df, "interval") = <<"Negative", "Delight">>
    /\ Malformed(raw_df)
    /\ ~tidy.ok
    /\ tidy.df = None

\* C13: the stored tables are both absent, or both present and made by one
\* successful process_data call: the weighted table is the weighting of the
\* stored tidy table, with as many rows and a <c>_pw column for each of its
\* emotion columns c; show_plot therefore never ends in an error.
C13_StoredTablesPaired ==
    /\ df_original.none <=> df_weighted.none
    /\ ~df_original.none =>
          /\ ~df_weighted.none
          /\ Height(df_weighted) = Height(df_original)
          /\ \A c \in Range(EmotionColumns(df_original)) :
                (c \o "_pw") \in Range(df_weighted.columns)
          /\ \E a \in AFloats, b \in BFloats :
                df_weighted = apply_power_weighting(df_original, a, b)
    /\ last.op = "show_plot" => last.status # "error"

====
